---- MODULE Spec2Model ----
(***************************************************************************)
(* Restaurant-rating backend (vluis26/App_Team_Rating).                    *)
(*                                                                         *)
(* Two programs live in the repository and both are modelled:              *)
(*   - the package  src/backend/app  (create_app, resources/, utils/),     *)
(*     specification Spec;                                                 *)
(*   - the single-file server  src/backend/api.py, specification SpecApi.  *)
(* Three more specifications exercise one part each: SpecAverages the      *)
(* aggregation over tables of up to MaxRows rows, SpecEvents the events    *)
(* lookup and its callers, SpecClock the package with its clock running.   *)
(*                                                                         *)
(* Encoding.  A Python str is a sequence of one-character strings.  An     *)
(* optional value (Python None / SQL NULL / a key absent from the JSON     *)
(* body) is a set with at most one element: {} is None, {v} is v.          *)
(***************************************************************************)
EXTENDS Integers, Sequences, FiniteSets, TLC

VARIABLES
    ratings,    \* table restaurant_rating_model: id -> row
    users,      \* table user_model: the set of user ids
    now,        \* wall clock of the running process
    deleted,    \* history: the ids whose row was deleted and that no later
                \* insert has taken again
    last,       \* the request being answered: the request, its response and
                \* the table before it; Idle between two requests
    call        \* the latest call of the events lookup: the function called,
                \* its arguments, the provider's reply and what came back

vars == <<ratings, users, now, deleted, last, call>>

(***************************************************************************)
(* Bounds of the model.                                                    *)
(***************************************************************************)
MaxId == 2          \* row ids range over 1..MaxId
MaxRows == 3        \* rows of the tables the aggregation is applied to
MaxReplyEvents == 4 \* events in one reply of the provider
MaxNow == 2         \* the clock runs from 0 to MaxNow

(***************************************************************************)
(* Optional values and Python truthiness.                                  *)
(***************************************************************************)
None == {}
Some(v) == {v}
The(o) == CHOOSE v \in o : TRUE

TruthyStr(o) == o # None /\ The(o) # <<>>
TruthyInt(o) == o # None /\ The(o) # 0

(***************************************************************************)
(* Strings.                                                                *)
(***************************************************************************)
Whitespace == {" "}

LowerOf(c) ==
    CASE c = "M" -> "m"
      [] c = "A" -> "a"
      [] c = "B" -> "b"
      [] c = "S" -> "s"
      [] c = "T" -> "t"
      [] c = "I" -> "i"
      [] OTHER   -> c

Lower(s) == [i \in 1..Len(s) |-> LowerOf(s[i])]

\* str.split(sep): the segments between the occurrences of sep.
RECURSIVE Split(_, _)
Split(s, sep) ==
    IF \A i \in 1..Len(s) : s[i] # sep
    THEN <<s>>
    ELSE LET i == CHOOSE k \in 1..Len(s) :
                      s[k] = sep /\ \A j \in 1..(k - 1) : s[j] # sep
         IN  <<SubSeq(s, 1, i - 1)>> \o Split(SubSeq(s, i + 1, Len(s)), sep)

\* str.strip(): leading and trailing whitespace removed.
RECURSIVE Strip(_)
Strip(s) ==
    IF s = <<>> THEN s
    ELSE IF s[1] \in Whitespace THEN Strip(Tail(s))
    ELSE IF s[Len(s)] \in Whitespace THEN Strip(SubSeq(s, 1, Len(s) - 1))
    ELSE s

\* SQL LIKE: '%' matches any run of characters, '_' any one character.
RECURSIVE Like(_, _)
Like(s, p) ==
    IF p = <<>> THEN s = <<>>
    ELSE IF p[1] = "%"
         THEN Like(s, Tail(p)) \/ (s # <<>> /\ Like(Tail(s), p))
    ELSE /\ s # <<>>
         /\ (p[1] = "_" \/ p[1] = s[1])
         /\ Like(Tail(s), Tail(p))

\* column.ilike(f"%{q}%"): lower(column) LIKE lower('%q%').
ILikeContains(s, q) == Like(Lower(s), <<"%">> \o Lower(q) \o <<"%">>)

(***************************************************************************)
(* Request values.  The handlers are exercised with a base body, with      *)
(* every body that differs from it in one field, and (PATCH) with every    *)
(* subset of the fields carrying a new value.                              *)
(***************************************************************************)
NameMa == <<"M", "a">>
NameB  == <<"B">>
TypeT  == <<"T">>
TypeS  == <<"S">>
MealA  == <<"a">>
MealB  == <<"b">>

AddrS          == <<"a", ",", " ", "S", " ", ",", "I">>   \* "a, S ,I"  city "S"
AddrT          == <<"b", ",", "T">>                       \* "b,T"      city "T"
AddrNoComma    == <<"a", " ", "S">>                       \* "a S"
AddrEmpty      == <<>>                                    \* ""
AddrEmptySeg   == <<"a", ",", ",", "I">>                  \* "a,,I"
AddrBlankSeg   == <<"a", ",", " ", ",", "I">>             \* "a, ,I"
AddrEndsComma  == <<"a", ",">>                            \* "a,"

Addresses ==
    {AddrS, AddrT, AddrNoComma, AddrEmpty, AddrEmptySeg, AddrBlankSeg, AddrEndsComma}

RatingInputs   == {0, 1, 5, 6}
CalorieInputs  == {0, 7, 9}
UserInputs     == {1, 2}
ExistingUsers  == {1}

Fields ==
    {"restaurant_name", "restaurant_type", "restaurant_address", "rating",
     "meal", "calories", "user_id"}

\* The values a field takes in a request besides those of BaseBody and NewBody.
FieldInputs(f) ==
    CASE f = "restaurant_name"    -> {NameB, <<>>}
      [] f = "restaurant_type"    -> {TypeS}
      [] f = "restaurant_address" -> Addresses
      [] f = "rating"             -> RatingInputs
      [] f = "meal"               -> {MealB}
      [] f = "calories"           -> CalorieInputs
      [] f = "user_id"            -> UserInputs

EmptyBody == [f \in Fields |-> None]

BaseBody ==
    [restaurant_name    |-> Some(NameMa),
     restaurant_type    |-> Some(TypeT),
     restaurant_address |-> Some(AddrS),
     rating             |-> Some(5),
     meal               |-> Some(MealA),
     calories           |-> Some(7),
     user_id            |-> None]

\* The value a PATCH writes when it carries a "new value" for a field.
NewBody ==
    [restaurant_name    |-> Some(NameB),
     restaurant_type    |-> Some(TypeS),
     restaurant_address |-> Some(AddrT),
     rating             |-> Some(1),
     meal               |-> Some(MealB),
     calories           |-> Some(9),
     user_id            |-> Some(1)]

\* b with one field f of F absent, or set to one of its inputs.
OneFieldChanged(b, F) ==
    {[b EXCEPT ![f] = None] : f \in F} \cup
    UNION {{[b EXCEPT ![f] = Some(v)] : v \in FieldInputs(f)} : f \in F}

\* POST bodies: the base body and every body one field away from it.
PostBodies == OneFieldChanged(BaseBody, Fields)

\* PATCH bodies: new values for every subset of the fields the PATCH parser
\* declares; every body of one field; the full body of new values with one
\* field changed.
PatchBodies ==
    {[f \in Fields |-> IF f \in S THEN NewBody[f] ELSE None] :
        S \in SUBSET (Fields \ {"user_id"})}
    \cup OneFieldChanged(EmptyBody, Fields)
    \cup OneFieldChanged(NewBody, {"restaurant_address", "rating", "calories", "user_id"})

NameQueries == {<<"m">>, <<"m", "A">>, <<"b">>, <<"z">>, <<"_">>}

NoQuery ==
    [restaurant_name |-> None, restaurant_type |-> None,
     min_rating |-> None, max_rating |-> None]

\* List queries: no filter, each filter alone, and the four together.
ListQueries ==
    {NoQuery,
     [NoQuery EXCEPT !.restaurant_name = Some(<<"m">>)],
     [NoQuery EXCEPT !.restaurant_type = Some(<<"t">>)],
     [NoQuery EXCEPT !.min_rating = Some(0)],
     [NoQuery EXCEPT !.min_rating = Some(5)],
     [NoQuery EXCEPT !.max_rating = Some(1)],
     [restaurant_name |-> Some(<<"_">>), restaurant_type |-> Some(<<"T">>),
      min_rating |-> Some(1), max_rating |-> Some(5)]}

(***************************************************************************)
(* The remote events provider: what one requests.get() yields.             *)
(***************************************************************************)
MaxEvents == 3

AllProviderReplies ==
    {[kind |-> "ok",         events |-> <<>>],
     [kind |-> "ok",         events |-> <<"e1", "e2", "e3", "e4">>],
     [kind |-> "http_error", events |-> <<>>],
     [kind |-> "transport",  events |-> <<>>],
     [kind |-> "malformed",  events |-> <<>>]}

\* The replies the routes are exercised with: more events than asked for,
\* none, and a failure.
ProviderReplies == {r \in AllProviderReplies : r.kind \in {"ok", "http_error"}}

ReplyFound == [kind |-> "ok", events |-> <<"e1", "e2">>]

EventNames == <<"e1", "e2", "e3", "e4", "e5", "e6">>

\* What one requests.get() of search_events can yield: a 200 response with
\* 0..MaxReplyEvents events under _embedded.events, a response of error
\* status (raise_for_status raises HTTPError), a transport exception, a body
\* that is not the expected JSON.
LookupReplies ==
    {[kind |-> "ok", events |-> SubSeq(EventNames, 1, k)] : k \in 0..MaxReplyEvents}
    \cup {[kind |-> k, events |-> <<>>] : k \in {"http_error", "transport", "malformed"}}

LookupCities == {<<"S">>, <<"T">>, <<"S", " ", "T">>}

Called(fn, city, max_events, reply, raised, value) ==
    [fn |-> fn, city |-> city, max_events |-> max_events, reply |-> reply,
     raised |-> raised, value |-> value]

NoCall == Called("none", <<>>, 0, [kind |-> "ok", events |-> <<>>], FALSE, <<>>)

Take(s, n) == SubSeq(s, 1, IF Len(s) < n THEN Len(s) ELSE n)

\* Faulty variant of search_events: a failure is logged and the empty list
\* returned.
search_events_fail_open(city, max_events, reply) ==
    IF reply.kind = "ok"
    THEN [raised |-> FALSE, value |-> Take(reply.events, max_events)]
    ELSE [raised |-> FALSE, value |-> <<>>]

\* ticketmaster_service.search_events: the list, or an exception raised.
search_events(city, max_events, reply) ==
    IF reply.kind = "ok"
    THEN [raised |-> FALSE, value |-> Take(reply.events, max_events)]
    ELSE [raised |-> TRUE,  value |-> <<>>]

\* RestaurantRatingModel.events, the property getter over _events.
events_property(_events) == IF _events # <<>> THEN _events ELSE <<>>

\* Faulty variant of fetch_and_assign_events: no try/except around the lookup,
\* so an exception of search_events leaves the helper.
fetch_and_assign_events_unguarded(city, reply) ==
    LET r == search_events(city, MaxEvents, reply)
    IN  [raised |-> r.raised,
         error  |-> r.raised,
         events |-> IF r.raised THEN <<>> ELSE r.value]

\* helpers.fetch_and_assign_events: whether search_events raised, whether an
\* exception leaves the helper (error), and the value read back from
\* rating.events.
fetch_and_assign_events(city, reply) ==
    LET r == search_events(city, MaxEvents, reply)
    IN  [raised |-> r.raised,
         error  |-> FALSE,
         events |-> events_property(IF r.raised THEN <<>> ELSE r.value)]

(***************************************************************************)
(* helpers.extract_city                                                    *)
(***************************************************************************)
\* Faulty variant of extract_city: an address without a comma yields its only
\* segment instead of None.
extract_city_first_segment(address) ==
    LET parts == Split(address, ",")
    IN  IF Len(parts) < 2 THEN Some(Strip(parts[1])) ELSE Some(Strip(parts[2]))

\* Faulty variant of extract_city: the segment is returned without strip().
extract_city_unstripped(address) ==
    LET parts == Split(address, ",")
    IN  IF Len(parts) < 2 THEN None ELSE Some(parts[2])

\* helpers.extract_city
extract_city(address) ==
    LET parts == Split(address, ",")
    IN  IF Len(parts) < 2 THEN None ELSE Some(Strip(parts[2]))

(***************************************************************************)
(* Request parsers (flask_restful.reqparse).                               *)
(***************************************************************************)
\* Faulty variant of the choices of rating: 0 and 6 let through.
RatingChoicesWide == 0..6

RatingChoices == 1..5

PostArgNames  == Fields
PostRequired  == Fields \ {"user_id"}
PatchArgNames == Fields \ {"user_id"}
PatchRequired == {}

\* parse_args() aborts with 400: a required argument is missing, or rating is
\* not one of the choices.
ParseFails(required, body) ==
    \/ \E f \in required : body[f] = None
    \/ body.rating # None /\ The(body.rating) \notin RatingChoices

\* The Namespace parse_args() returns: one key per declared argument, and
\* nothing for a key of the body the parser does not declare.
Namespace(names, body) == [f \in names |-> body[f]]

(***************************************************************************)
(* The store.                                                              *)
(***************************************************************************)
ImportTime == 0

\* Column default of date_posted: datetime.now(timezone.utc), evaluated when
\* the class body runs, that is once, at import.
DefaultDatePosted(t) == ImportTime

Max(S) == CHOOSE m \in S : \A x \in S : x <= m

\* INTEGER PRIMARY KEY of SQLite: one more than the largest id in use.
NextRowId(table) == IF DOMAIN table = {} THEN 1 ELSE Max(DOMAIN table) + 1

Insert(table, id, row) ==
    [i \in DOMAIN table \cup {id} |-> IF i = id THEN row ELSE table[i]]

Remove(table, id) == [i \in DOMAIN table \ {id} |-> table[i]]

EmptyTable == [i \in {} |-> 0]

Item(id, row, events) == [id |-> id, row |-> row, events |-> events]

Response(op, id, body, query, status, items, avgs, raised, pre) ==
    [op |-> op, id |-> id, body |-> body, query |-> query, status |-> status,
     items |-> items, avgs |-> avgs, raised |-> raised, pre |-> pre]

\* What a handler leaves behind: the response and the table as committed.
Outcome(status, table, id, items, raised) ==
    [status |-> status, table |-> table, id |-> id, items |-> items, raised |-> raised]

\* The end of a request's session on one loaded row: db.session.commit()
\* writes the row as the handler left it; a request that ends without commit
\* (abort, exception) has its scoped session removed and the row stays as it was.
SessionEnd(table, id, row, committed) ==
    IF committed THEN [table EXCEPT ![id] = row] ELSE table

\* An HTTPException raised by abort() inside "try: ... except Exception":
\* the handler catches it and aborts again with 500.
ExceptException(status) == 500

(***************************************************************************)
(* app/resources/restaurant_ratings.py                                     *)
(***************************************************************************)
\* RestaurantRatings.post
post(body, reply, table, t) ==
    IF ParseFails(PostRequired, body)
    THEN Outcome(400, table, 0, {}, {})
    ELSE
    LET args    == Namespace(PostArgNames, body)
        address == The(args.restaurant_address)
        city    == extract_city(address)
    IN  IF ~TruthyStr(city)
        THEN Outcome(400, table, 0, {}, {})
        ELSE
        LET id  == NextRowId(table)
            new_rating ==
                [restaurant_name    |-> The(args.restaurant_name),
                 restaurant_type    |-> The(args.restaurant_type),
                 restaurant_address |-> address,
                 rating             |-> The(args.rating),
                 meal               |-> The(args.meal),
                 calories           |-> The(args.calories),
                 user_id            |-> args.user_id,
                 city               |-> The(city),
                 date_posted        |-> DefaultDatePosted(t)]
            committed == Insert(table, id, new_rating)
            ev  == fetch_and_assign_events(new_rating.city, reply)
        IN  IF ev.error
            THEN Outcome(500, committed, id, {}, {id})
            ELSE Outcome(201, committed, id, {Item(id, new_rating, ev.events)},
                         IF ev.raised THEN {id} ELSE {})

\* The rows a list query selects (RestaurantRatings.get).
Selected(query, table) ==
    {i \in DOMAIN table :
        /\ TruthyStr(query.restaurant_name) =>
               ILikeContains(table[i].restaurant_name, The(query.restaurant_name))
        /\ TruthyStr(query.restaurant_type) =>
               ILikeContains(table[i].restaurant_type, The(query.restaurant_type))
        /\ TruthyInt(query.min_rating) => table[i].rating >= The(query.min_rating)
        /\ TruthyInt(query.max_rating) => table[i].rating <= The(query.max_rating)}

\* "for rating in ratings: fetch_and_assign_events(rating)": the lookups of
\* the rows in failing get reply, the others find events.
Enriched(ids, table, failing, reply) ==
    LET ev(i) == fetch_and_assign_events(table[i].city,
                                         IF i \in failing THEN reply ELSE ReplyFound)
    IN  IF \E i \in ids : ev(i).error
        THEN Outcome(500, table, 0, {}, {i \in ids : ev(i).raised})
        ELSE Outcome(200, table, 0, {Item(i, table[i], ev(i).events) : i \in ids},
                     {i \in ids : ev(i).raised})

\* RestaurantRatings.get
get_all(query, table, failing, reply) ==
    Enriched(Selected(query, table), table, failing, reply)

\* RestaurantRating.get
get(id, reply, table) ==
    IF id \notin DOMAIN table
    THEN Outcome(404, table, id, {}, {})
    ELSE [Enriched({id}, table, {id}, reply) EXCEPT !.id = id]

\* RestaurantRating.patch
patch(id, body, reply, table, userTable) ==
    IF ParseFails(PatchRequired, body)
    THEN Outcome(400, table, id, {}, {})
    ELSE IF id \notin DOMAIN table
    THEN Outcome(404, table, id, {}, {})
    ELSE
    LET args == Namespace(PatchArgNames, body)
        r0 == table[id]
        r1 == IF TruthyStr(args.restaurant_name)
              THEN [r0 EXCEPT !.restaurant_name = The(args.restaurant_name)] ELSE r0
        r2 == IF TruthyStr(args.restaurant_type)
              THEN [r1 EXCEPT !.restaurant_type = The(args.restaurant_type)] ELSE r1
        addressGiven == TruthyStr(args.restaurant_address)
        r3 == IF addressGiven
              THEN [r2 EXCEPT !.restaurant_address = The(args.restaurant_address)] ELSE r2
        new_city == extract_city(r3.restaurant_address)
    IN  IF addressGiven /\ ~TruthyStr(new_city)
        THEN Outcome(400, SessionEnd(table, id, r3, FALSE), id, {}, {})
        ELSE
        LET r4 == IF addressGiven THEN [r3 EXCEPT !.city = The(new_city)] ELSE r3
            r5 == IF TruthyInt(args.rating)
                  THEN [r4 EXCEPT !.rating = The(args.rating)] ELSE r4
            r6 == IF TruthyStr(args.meal)
                  THEN [r5 EXCEPT !.meal = The(args.meal)] ELSE r5
            r7 == IF TruthyInt(args.calories)
                  THEN [r6 EXCEPT !.calories = The(args.calories)] ELSE r6
        IN  IF "user_id" \notin DOMAIN args
            THEN \* args['user_id'] raises KeyError: the parser declares no user_id
                 Outcome(500, SessionEnd(table, id, r7, FALSE), id, {}, {})
            ELSE IF TruthyInt(args.user_id) /\ The(args.user_id) \notin userTable
            THEN Outcome(400, SessionEnd(table, id, r7, FALSE), id, {}, {})
            ELSE
            LET r8 == IF TruthyInt(args.user_id)
                      THEN [r7 EXCEPT !.user_id = args.user_id] ELSE r7
                committed == SessionEnd(table, id, r8, TRUE)
                ev == fetch_and_assign_events(r8.city, reply)
            IN  IF ev.error
                THEN Outcome(500, committed, id, {}, {id})
                ELSE Outcome(200, committed, id, {Item(id, r8, ev.events)},
                             IF ev.raised THEN {id} ELSE {})

\* Faulty variant of delete: no not-found check, so deleting the None that
\* first() returned raises and the request ends with 500.
delete_unchecked(id, table) ==
    IF id \notin DOMAIN table
    THEN Outcome(500, table, id, {}, {})
    ELSE Outcome(200, Remove(table, id), id, {}, {})

\* Faulty variant of delete: the matching row and every row after it go.
delete_from(id, table) ==
    IF id \notin DOMAIN table
    THEN Outcome(404, table, id, {}, {})
    ELSE Outcome(200, [i \in {j \in DOMAIN table : j < id} |-> table[i]], id, {}, {})

\* RestaurantRating.delete
delete(id, table) ==
    IF id \notin DOMAIN table
    THEN Outcome(404, table, id, {}, {})
    ELSE Outcome(200, Remove(table, id), id, {}, {})

(***************************************************************************)
(* Aggregation.                                                            *)
(***************************************************************************)
RECURSIVE SumRatings(_, _)
SumRatings(ids, table) ==
    IF ids = {} THEN 0
    ELSE LET i == CHOOSE x \in ids : TRUE
         IN  table[i].rating + SumRatings(ids \ {i}, table)

\* Faulty variant of Round2: the digits after the second decimal are cut off.
Round2_truncated(sum, n) == (sum * 100) \div n

\* round(sum / n, 2) in hundredths; a tie goes to the even hundredth.
Round2(sum, n) ==
    LET q == (sum * 100) \div n
        r == (sum * 100) % n
    IN  IF 2 * r < n THEN q
        ELSE IF 2 * r > n THEN q + 1
        ELSE IF q % 2 = 0 THEN q ELSE q + 1

\* One row of "SELECT restaurant_name, avg(rating) ... GROUP BY restaurant_name",
\* with "round(avg, 2) if avg else None" applied.
GroupAverage(name, table) ==
    LET ids == {i \in DOMAIN table : table[i].restaurant_name = name}
        sum == SumRatings(ids, table)
    IN  [restaurant_name |-> name,
         average_rating  |-> IF sum = 0 THEN None
                             ELSE Some(Round2(sum, Cardinality(ids)))]

GroupNames(ids, table) == {table[i].restaurant_name : i \in ids}

\* Average_Ratings.get
average_ratings(table) ==
    [status |-> 200,
     avgs   |-> {GroupAverage(n, table) : n \in GroupNames(DOMAIN table, table)}]

\* The groups Average_Rating.get's query yields; .first() takes one of them.
MatchedGroups(restaurant_name, table) ==
    GroupNames({i \in DOMAIN table :
                   ILikeContains(table[i].restaurant_name, restaurant_name)}, table)

\* Average_Rating.get, first being the group .first() returned.
average_rating(restaurant_name, first, table) ==
    IF MatchedGroups(restaurant_name, table) = {}
    THEN [status |-> ExceptException(404), avgs |-> {}]
    ELSE [status |-> 200, avgs |-> {GroupAverage(first, table)}]

\* Faulty variant of user_ratings: no check of an empty result, so a user
\* without Ratings is answered 200 and the empty list.
user_ratings_empty_ok(user_id, table, userTable, failing, reply) ==
    IF user_id \notin userTable
    THEN Outcome(404, table, user_id, {}, {})
    ELSE LET ids == {i \in DOMAIN table : table[i].user_id = Some(user_id)}
         IN  [Enriched(ids, table, failing, reply) EXCEPT !.id = user_id]

\* UserRatings.get
user_ratings(user_id, table, userTable, failing, reply) ==
    IF user_id \notin userTable
    THEN Outcome(404, table, user_id, {}, {})
    ELSE LET ids == {i \in DOMAIN table : table[i].user_id = Some(user_id)}
         IN  IF ids = {}
             THEN Outcome(404, table, user_id, {}, {})
             ELSE [Enriched(ids, table, failing, reply) EXCEPT !.id = user_id]

(***************************************************************************)
(* The package app as a state machine: one action per route.               *)
(***************************************************************************)
Ids == 1..MaxId

Idle == Response("idle", 0, EmptyBody, NoQuery, 0, {}, {}, {}, EmptyTable)

Init ==
    /\ ratings = EmptyTable
    /\ users = ExistingUsers
    /\ now = 0
    /\ deleted = {}
    /\ last = Idle
    /\ call = NoCall

\* The handler's outcome becomes the state: the table as committed, the
\* request and its response in last.
Record(op, body, query, o) ==
    /\ ratings' = o.table
    /\ last' = Response(op, o.id, body, query, o.status, o.items, {}, o.raised, ratings)
    /\ deleted' = (deleted \cup (DOMAIN ratings \ DOMAIN o.table)) \ DOMAIN o.table
    /\ UNCHANGED <<users, now, call>>

RecordAverages(op, query, o) ==
    /\ last' = Response(op, 0, EmptyBody, query, o.status, {}, o.avgs, {}, ratings)
    /\ UNCHANGED <<ratings, users, now, deleted, call>>

\* A request is handled to completion before the next one is taken
\* (last = Idle).
Post ==
    /\ last = Idle
    /\ NextRowId(ratings) <= MaxId
    /\ \E body \in PostBodies, reply \in ProviderReplies :
           Record("post", body, NoQuery, post(body, reply, ratings, now))

GetAll ==
    /\ last = Idle
    /\ \E query \in ListQueries, failing \in SUBSET DOMAIN ratings,
          reply \in ProviderReplies :
           Record("get_all", EmptyBody, query, get_all(query, ratings, failing, reply))

Get ==
    /\ last = Idle
    /\ \E id \in Ids, reply \in ProviderReplies :
           Record("get", EmptyBody, NoQuery, get(id, reply, ratings))

Patch ==
    /\ last = Idle
    /\ \E id \in Ids, body \in PatchBodies, reply \in ProviderReplies :
           Record("patch", body, NoQuery, patch(id, body, reply, ratings, users))

Delete ==
    /\ last = Idle
    /\ \E id \in Ids :
           Record("delete", EmptyBody, NoQuery, delete(id, ratings))

AverageRatings ==
    /\ last = Idle
    /\ RecordAverages("average_ratings", NoQuery, average_ratings(ratings))

AverageRating ==
    /\ last = Idle
    /\ \E q \in NameQueries :
        \E first \in (IF MatchedGroups(q, ratings) = {} THEN {q}
                      ELSE MatchedGroups(q, ratings)) :
            RecordAverages("average_rating",
                           [NoQuery EXCEPT !.restaurant_name = Some(q)],
                           average_rating(q, first, ratings))

UserRatings ==
    /\ last = Idle
    /\ \E user_id \in UserInputs, failing \in SUBSET DOMAIN ratings,
          reply \in ProviderReplies :
           Record("user_ratings", EmptyBody, NoQuery,
                  user_ratings(user_id, ratings, users, failing, reply))

\* The response has been sent; the server takes the next request.
Respond ==
    /\ last # Idle
    /\ last' = Idle
    /\ UNCHANGED <<ratings, users, now, deleted, call>>

Next ==
    \/ Post
    \/ GetAll
    \/ Get
    \/ Patch
    \/ Delete
    \/ AverageRatings
    \/ AverageRating
    \/ UserRatings
    \/ Respond

Spec == Init /\ [][Next]_vars

(***************************************************************************)
(* api.py: the single-file server.  Its own parser (rating_args) serves     *)
(* both POST and PATCH, and its handlers inline the events lookup.         *)
(***************************************************************************)
ApiArgNames == Fields
ApiRequired == Fields \ {"user_id"}

\* api.extract_city: parts[1].strip(), None on IndexError.
api_extract_city(address) ==
    LET parts == Split(address, ",")
    IN  IF Len(parts) >= 2 THEN Some(Strip(parts[2])) ELSE None

\* "try: events = search_events(...) except Exception: events = []", then
\* rating.events = events and the property read back.
api_lookup(city, reply) ==
    LET r == search_events(city, MaxEvents, reply)
    IN  [raised |-> r.raised,
         events |-> events_property(IF r.raised THEN <<>> ELSE r.value)]

\* dict.get(key, default) on the parsed Namespace.
NamespaceGet(args, key, default) ==
    IF key \in DOMAIN args THEN args[key] ELSE default

\* api.RestaurantRatings.post
api_post(body, reply, table, t) ==
    IF ParseFails(ApiRequired, body)
    THEN Outcome(400, table, 0, {}, {})
    ELSE
    LET args    == Namespace(ApiArgNames, body)
        address == The(args.restaurant_address)
        city    == api_extract_city(address)
    IN  IF ~TruthyStr(city)
        THEN Outcome(400, table, 0, {}, {})
        ELSE
        LET id  == NextRowId(table)
            new_rating ==
                [restaurant_name    |-> The(args.restaurant_name),
                 restaurant_type    |-> The(args.restaurant_type),
                 restaurant_address |-> address,
                 rating             |-> The(args.rating),
                 meal               |-> The(args.meal),
                 calories           |-> The(args.calories),
                 user_id            |-> NamespaceGet(args, "user_id", None),
                 city               |-> The(city),
                 date_posted        |-> DefaultDatePosted(t)]
            ev  == api_lookup(city, reply)
        IN  Outcome(201, Insert(table, id, new_rating), id,
                    {Item(id, new_rating, ev.events)},
                    IF ev.raised THEN {id} ELSE {})

\* api.RestaurantRatings.get: no restaurant_name filter.
api_get_all(query, table, failing, reply) ==
    LET ids == Selected([query EXCEPT !.restaurant_name = None], table)
        ev(i) == api_lookup(table[i].city, IF i \in failing THEN reply ELSE ReplyFound)
    IN  Outcome(200, table, 0, {Item(i, table[i], ev(i).events) : i \in ids},
                {i \in ids : ev(i).raised})

\* api.RestaurantRating.get
api_get(id, reply, table) ==
    IF id \notin DOMAIN table
    THEN Outcome(404, table, id, {}, {})
    ELSE LET ev == api_lookup(table[id].city, reply)
         IN  Outcome(200, table, id, {Item(id, table[id], ev.events)},
                     IF ev.raised THEN {id} ELSE {})

\* api.RestaurantRating.patch
api_patch(id, body, table) ==
    IF ParseFails(ApiRequired, body)
    THEN Outcome(400, table, id, {}, {})
    ELSE IF id \notin DOMAIN table
    THEN Outcome(404, table, id, {}, {})
    ELSE
    LET args == Namespace(ApiArgNames, body)
        r == table[id]
        updated ==
            [r EXCEPT
                !.restaurant_name =
                    The(NamespaceGet(args, "restaurant_name", Some(r.restaurant_name))),
                !.restaurant_type =
                    The(NamespaceGet(args, "restaurant_type", Some(r.restaurant_type))),
                !.restaurant_address =
                    The(NamespaceGet(args, "restaurant_address", Some(r.restaurant_address))),
                !.rating   = The(NamespaceGet(args, "rating", Some(r.rating))),
                !.meal     = The(NamespaceGet(args, "meal", Some(r.meal))),
                !.calories = The(NamespaceGet(args, "calories", Some(r.calories))),
                !.user_id  = NamespaceGet(args, "user_id", r.user_id)]
    IN  Outcome(200, SessionEnd(table, id, updated, TRUE), id,
                {Item(id, updated, events_property(<<>>))}, {})

\* api.RestaurantRating.delete
api_delete(id, table) ==
    IF id \notin DOMAIN table
    THEN Outcome(404, table, id, {}, {})
    ELSE Outcome(200, Remove(table, id), id, {}, {})

\* api.AggregatedData.get
api_aggregated(table) ==
    [status |-> 200,
     avgs   |-> {GroupAverage(n, table) : n \in GroupNames(DOMAIN table, table)}]

ApiPost ==
    /\ last = Idle
    /\ NextRowId(ratings) <= MaxId
    /\ \E body \in PostBodies, reply \in ProviderReplies :
           Record("post", body, NoQuery, api_post(body, reply, ratings, now))

ApiGetAll ==
    /\ last = Idle
    /\ \E query \in ListQueries, failing \in SUBSET DOMAIN ratings,
          reply \in ProviderReplies :
           Record("get_all", EmptyBody, query, api_get_all(query, ratings, failing, reply))

ApiGet ==
    /\ last = Idle
    /\ \E id \in Ids, reply \in ProviderReplies :
           Record("get", EmptyBody, NoQuery, api_get(id, reply, ratings))

ApiPatch ==
    /\ last = Idle
    /\ \E id \in Ids, body \in PatchBodies :
           Record("patch", body, NoQuery, api_patch(id, body, ratings))

ApiDelete ==
    /\ last = Idle
    /\ \E id \in Ids :
           Record("delete", EmptyBody, NoQuery, api_delete(id, ratings))

ApiAggregated ==
    /\ last = Idle
    /\ RecordAverages("aggregated", NoQuery, api_aggregated(ratings))

NextApi ==
    \/ ApiPost
    \/ ApiGetAll
    \/ ApiGet
    \/ ApiPatch
    \/ ApiDelete
    \/ ApiAggregated
    \/ Respond

SpecApi == Init /\ [][NextApi]_vars

(***************************************************************************)
(* The aggregation over the tables that creates leave behind: every table  *)
(* of up to MaxRows rows over two restaurant names and the ratings 1..5,   *)
(* then averaged, and thinned out by deletes.                              *)
(***************************************************************************)
AverageBodies ==
    {[BaseBody EXCEPT !.restaurant_name = Some(nm), !.rating = Some(r)] :
        nm \in {NameMa, NameB}, r \in RatingChoices}

\* The tables n successful creates build from the empty table.
RECURSIVE PostedTables(_)
PostedTables(n) ==
    IF n = 0 THEN {EmptyTable}
    ELSE {post(b, ReplyFound, t, 0).table :
              b \in AverageBodies, t \in PostedTables(n - 1)}

InitAverages ==
    /\ ratings \in UNION {PostedTables(n) : n \in 0..MaxRows}
    /\ users = ExistingUsers
    /\ now = 0
    /\ deleted = {}
    /\ last = Idle
    /\ call = NoCall

DeleteRow ==
    /\ last = Idle
    /\ \E id \in 1..MaxRows :
           Record("delete", EmptyBody, NoQuery, delete(id, ratings))

NextAverages ==
    \/ AverageRatings
    \/ DeleteRow
    \/ Respond

SpecAverages == InitAverages /\ [][NextAverages]_vars

(***************************************************************************)
(* The events lookup on its own: search_events called directly, and called *)
(* through each of its two callers.                                        *)
(***************************************************************************)
SearchEvents ==
    \E city \in LookupCities, max_events \in 0..(MaxEvents + 1),
       reply \in LookupReplies :
        LET r == search_events(city, max_events, reply)
        IN  /\ call' = Called("search_events", city, max_events, reply,
                              r.raised, r.value)
            /\ UNCHANGED <<ratings, users, now, deleted, last>>

FetchAndAssignEvents ==
    \E city \in LookupCities, reply \in LookupReplies :
        LET ev == fetch_and_assign_events(city, reply)
        IN  /\ call' = Called("fetch_and_assign_events", city, MaxEvents, reply,
                              ev.error, ev.events)
            /\ UNCHANGED <<ratings, users, now, deleted, last>>

ApiLookup ==
    \E city \in LookupCities, reply \in LookupReplies :
        LET ev == api_lookup(city, reply)
        IN  /\ call' = Called("api_lookup", city, MaxEvents, reply,
                              FALSE, ev.events)
            /\ UNCHANGED <<ratings, users, now, deleted, last>>

NextEvents ==
    \/ SearchEvents
    \/ FetchAndAssignEvents
    \/ ApiLookup

SpecEvents == Init /\ [][NextEvents]_vars

(***************************************************************************)
(* The package app with its clock running: time passes between requests,   *)
(* the process (and so the import of models.py) stays the same.            *)
(***************************************************************************)
Tick ==
    /\ last = Idle
    /\ now < MaxNow
    /\ now' = now + 1
    /\ UNCHANGED <<ratings, users, deleted, last, call>>

NextClock ==
    \/ Post
    \/ Patch
    \/ Delete
    \/ Tick
    \/ Respond

SpecClock == Init /\ [][NextClock]_vars

(***************************************************************************)
(* Properties.  They are stated over last (the request, its response, the  *)
(* table before it) and ratings (the table after it), in terms defined     *)
(* here from the wording of each property and not from the handlers.       *)
(***************************************************************************)
HasComma(a) == \E i \in 1..Len(a) : a[i] = ","

\* The text between the first comma of a and the next comma (or the end).
SecondSegment(a) ==
    LET c1 == CHOOSE i \in 1..Len(a) : a[i] = "," /\ \A j \in 1..(i - 1) : a[j] # ","
        later == {i \in (c1 + 1)..Len(a) : a[i] = ","}
        c2 == IF later = {} THEN Len(a) + 1
              ELSE CHOOSE i \in later : \A j \in later : i <= j
    IN  SubSeq(a, c1 + 1, c2 - 1)

\* s without its leading and trailing blanks.
Trimmed(s) ==
    LET solid == {i \in 1..Len(s) : s[i] # " "}
    IN  IF solid = {} THEN <<>>
        ELSE SubSeq(s, CHOOSE i \in solid : \A j \in solid : i <= j,
                       CHOOSE i \in solid : \A j \in solid : j <= i)

RequiredFields ==
    {"restaurant_name", "restaurant_type", "restaurant_address", "rating",
     "meal", "calories"}

ValidRating(o) == o # None /\ The(o) \in {1, 2, 3, 4, 5}

\* A create body with every required field and a rating of 1..5.
ValidCreateFields(b) ==
    /\ \A f \in RequiredFields : b[f] # None
    /\ ValidRating(b.rating)

IsCreate == last.op = "post"
IsUpdate == last.op = "patch"
Existed  == last.id \in DOMAIN last.pre
StoreUnchanged == ratings = last.pre

\* The id of the request had been deleted, and not created again, before it.
WasDeleted == last.id \in deleted /\ ~Existed

\* The table is last.pre with one new row, under the id of the response.
OneRowAdded ==
    /\ last.id \notin DOMAIN last.pre
    /\ DOMAIN ratings = DOMAIN last.pre \cup {last.id}
    /\ \A i \in DOMAIN last.pre : ratings[i] = last.pre[i]

----------------------------------------------------------------------------
\* C1: a create whose body is otherwise valid and whose restaurant_address
\* contains no comma is answered 400 and the stored Ratings are the same
\* after the request as before it.
C1_NoCommaCreateRejected ==
    (/\ IsCreate
     /\ ValidCreateFields(last.body)
     /\ ~HasComma(The(last.body.restaurant_address)))
    => (last.status = 400 /\ StoreUnchanged)

\* C1 witness: such a create was answered, with rows already stored.
C1_Witness ==
    /\ IsCreate
    /\ ValidCreateFields(last.body)
    /\ last.body.restaurant_address = Some(AddrNoComma)
    /\ last.status = 400
    /\ DOMAIN ratings # {}

----------------------------------------------------------------------------
\* C2 as stated: every create with valid required fields and an address
\* containing a comma succeeds, and the stored city is the trimmed second
\* segment, also when that segment is empty or blank.
C2_AsStated ==
    (/\ IsCreate
     /\ ValidCreateFields(last.body)
     /\ HasComma(The(last.body.restaurant_address)))
    => /\ last.status = 201
       /\ OneRowAdded
       /\ ratings[last.id].city =
              Trimmed(SecondSegment(The(last.body.restaurant_address)))

\* C2 amended: such a create succeeds exactly when the trimmed second segment
\* is not empty, and then the stored city is that segment; when the segment is
\* empty or blank the create is answered 400 and nothing is stored.
C2_CityIsTrimmedSecondSegment ==
    (/\ IsCreate
     /\ ValidCreateFields(last.body)
     /\ HasComma(The(last.body.restaurant_address)))
    => LET seg == Trimmed(SecondSegment(The(last.body.restaurant_address)))
       IN  IF seg # <<>>
           THEN /\ last.status = 201
                /\ OneRowAdded
                /\ ratings[last.id].city = seg
                /\ ratings[last.id].restaurant_address =
                       The(last.body.restaurant_address)
           ELSE last.status = 400 /\ StoreUnchanged

\* C2 witness: a create stored a city that had blanks around it in the address.
C2_Witness ==
    /\ IsCreate
    /\ last.status = 201
    /\ last.body.restaurant_address = Some(AddrS)
    /\ ratings[last.id].city = <<"S">>

----------------------------------------------------------------------------
\* C3: a create or update carrying a rating outside 1..5 is rejected and
\* leaves the store unchanged, and every stored Rating has a rating in 1..5.
C3_RatingInRange ==
    /\ \A i \in DOMAIN ratings : ratings[i].rating \in {1, 2, 3, 4, 5}
    /\ (/\ IsCreate \/ IsUpdate
        /\ last.body.rating # None
        /\ The(last.body.rating) \notin {1, 2, 3, 4, 5})
       => (last.status = 400 /\ StoreUnchanged)

\* C3 witness: an update of a stored Rating carried the rating 6.
C3_Witness ==
    /\ IsUpdate
    /\ Existed
    /\ last.body.rating = Some(6)
    /\ last.status = 400

----------------------------------------------------------------------------
\* C4: an update of a stored Rating leaves every field that is absent from
\* the body as it was (an omitted user_id is not reset to null).
C4_OmittedFieldsKept ==
    (IsUpdate /\ Existed)
    => /\ last.id \in DOMAIN ratings
       /\ \A f \in Fields :
              last.body[f] = None => ratings[last.id][f] = last.pre[last.id][f]

----------------------------------------------------------------------------
\* A PATCH body of valid values: any subset of the six updatable fields, the
\* rating in 1..5, the address with a city to derive, calories 0 or more.
ValidUpdateBody(b) ==
    /\ b.user_id = None
    /\ \A f \in {"restaurant_name", "restaurant_type", "meal"} :
           b[f] # None => The(b[f]) # <<>>
    /\ b.rating # None => ValidRating(b.rating)
    /\ b.calories # None => The(b.calories) >= 0
    /\ b.restaurant_address # None =>
           /\ HasComma(The(b.restaurant_address))
           /\ Trimmed(SecondSegment(The(b.restaurant_address))) # <<>>

\* C5: an update of a stored Rating with a body of valid values is answered
\* 200 and every provided field is stored as provided.
C5_ValidUpdateStored ==
    (IsUpdate /\ Existed /\ ValidUpdateBody(last.body))
    => /\ last.status = 200
       /\ last.id \in DOMAIN ratings
       /\ \A f \in RequiredFields :
              last.body[f] # None => ratings[last.id][f] = The(last.body[f])

----------------------------------------------------------------------------
\* C6: an update of a stored Rating that supplies an address without a comma
\* is answered 400 and nothing of the request is stored.
C6_UnderivableUpdateRejected ==
    (/\ IsUpdate
     /\ Existed
     /\ last.body.restaurant_address # None
     /\ ~HasComma(The(last.body.restaurant_address)))
    => (last.status = 400 /\ StoreUnchanged)

----------------------------------------------------------------------------
SuccessStatus(op) == IF op = "post" THEN 201 ELSE 200

\* C7: when the events lookup raises during create, read-one, read-many or
\* update, the events of each affected Rating in the response are the empty
\* list and the operation answers its success status; a create whose lookup
\* raised has its row stored.
C7_LookupFailureAbsorbed ==
    (last.raised # {})
    => /\ last.op \in {"post", "get", "get_all", "patch", "user_ratings"}
       /\ last.status = SuccessStatus(last.op)
       /\ \A i \in last.raised :
              \E it \in last.items : it.id = i /\ it.events = <<>>
       /\ IsCreate => (OneRowAdded /\ last.raised = {last.id})

\* C7 witness: a create answered 201 although its lookup raised.
C7_Witness ==
    /\ IsCreate
    /\ last.raised = {last.id}
    /\ last.status = 201
    /\ last.id \in DOMAIN ratings

----------------------------------------------------------------------------
\* C8: deleting an id that has no stored Rating is answered 404 and leaves
\* the stored Ratings and Users unchanged.
C8_DeleteAbsentIsNotFound ==
    (last.op = "delete" /\ ~Existed)
    => (last.status = 404 /\ StoreUnchanged /\ users = ExistingUsers)

\* C8 witness: an id that had just been deleted was deleted again, while other
\* Ratings were stored.
C8_Witness ==
    /\ last.op = "delete"
    /\ WasDeleted
    /\ last.status = 404
    /\ DOMAIN ratings # {}

----------------------------------------------------------------------------
\* What C9 says besides the answer to an update of an absent id.
DeleteIsExactAndPermanent ==
    /\ (last.op = "delete" /\ Existed)
       => /\ last.status = 200
          /\ DOMAIN ratings = DOMAIN last.pre \ {last.id}
          /\ \A i \in DOMAIN ratings : ratings[i] = last.pre[i]
          /\ users = ExistingUsers
    \* only a create brings an id (back) into the table
    /\ last.op \notin {"idle", "post"} => DOMAIN ratings \subseteq DOMAIN last.pre
    /\ deleted \cap DOMAIN ratings = {}
    /\ (last.op \in {"get", "delete"} /\ WasDeleted) => last.status = 404
    \* list, per-user and average results show stored rows only
    /\ \A it \in last.items :
           it.id \in DOMAIN ratings /\ it.row = ratings[it.id]
    /\ (last.op = "user_ratings" /\ last.status = 200)
       => \A it \in last.items : it.row.user_id = Some(last.id)
    /\ \A a \in last.avgs :
           \E i \in DOMAIN ratings : ratings[i].restaurant_name = a.restaurant_name

\* C9 as stated: a delete removes exactly that Rating, for good; until a later
\* create a read-one, update or delete of that id is answered 404 and lists,
\* per-user and average results do not show it.
C9_AsStated ==
    /\ DeleteIsExactAndPermanent
    /\ (IsUpdate /\ WasDeleted) => last.status = 404

\* C9 amended: the same, except that an update of the absent id is answered
\* 404 when its body passes validation and 400 when the body carries a rating
\* outside 1..5.
C9_DeletePermanent ==
    /\ DeleteIsExactAndPermanent
    /\ (IsUpdate /\ WasDeleted)
       => last.status = (IF last.body.rating = None \/ ValidRating(last.body.rating)
                         THEN 404 ELSE 400)

\* C9 witness: one of two stored Ratings was deleted, then read: not found.
C9_Witness ==
    /\ last.op = "get"
    /\ WasDeleted
    /\ last.status = 404
    /\ DOMAIN ratings # {}

----------------------------------------------------------------------------
\* q occurs in s, letter case aside.
ContainsIgnoringCase(s, q) ==
    \E k \in 0..(Len(s) - Len(q)) :
        \A i \in 1..Len(q) : LowerOf(s[k + i]) = LowerOf(q[i])

\* C10: the average of a name that is a case-insensitive substring of no
\* stored restaurant name is answered 404.
C10_UnknownNameNotFound ==
    (/\ last.op = "average_rating"
     /\ \A i \in DOMAIN last.pre :
            ~ContainsIgnoringCase(last.pre[i].restaurant_name,
                                  The(last.query.restaurant_name)))
    => last.status = 404

----------------------------------------------------------------------------
\* The Ratings of the table before the request that the user last.id owns.
OwnedBefore == {i \in DOMAIN last.pre : last.pre[i].user_id = Some(last.id)}

\* C11: the Ratings of a user are answered 404 when no such User exists, 404
\* too when the User exists and owns no Rating, and otherwise 200 with exactly
\* the Ratings whose user_id is that id; the read changes nothing.
C11_UserRatingsOrNotFound ==
    (last.op = "user_ratings")
    => /\ StoreUnchanged
       /\ IF last.id \notin users \/ OwnedBefore = {}
          THEN last.status = 404 /\ last.items = {}
          ELSE /\ last.status = 200
               /\ {it.id : it \in last.items} = OwnedBefore
               /\ \A it \in last.items : it.row = last.pre[it.id]

\* C11 witness: an existing User who owns none of the stored Ratings asked
\* for their Ratings and was answered 404.
C11_Witness ==
    /\ last.op = "user_ratings"
    /\ last.id \in users
    /\ DOMAIN last.pre # {}
    /\ OwnedBefore = {}
    /\ last.status = 404

----------------------------------------------------------------------------
\* C12: a create or update whose user_id names no existing User is answered
\* 400 and stores nothing, and no stored Rating references a User that does
\* not exist.
C12_UnresolvedUserRejected ==
    /\ \A i \in DOMAIN ratings :
           ratings[i].user_id # None => The(ratings[i].user_id) \in users
    /\ (/\ IsCreate \/ IsUpdate
        /\ last.body.user_id # None
        /\ The(last.body.user_id) \notin users)
       => (last.status = 400 /\ StoreUnchanged)

----------------------------------------------------------------------------
\* The stored Ratings of the restaurant name nm.
RowsNamed(nm) == {i \in DOMAIN ratings : ratings[i].restaurant_name = nm}

RECURSIVE Total(_)
Total(ids) ==
    IF ids = {} THEN 0
    ELSE LET i == CHOOSE x \in ids : TRUE
         IN  ratings[i].rating + Total(ids \ {i})

\* h hundredths is the mean of the ratings of ids rounded to two decimals:
\* no hundredth is nearer to the mean.
IsMeanInHundredths(h, ids) ==
    LET n == Cardinality(ids)
        d == 100 * Total(ids) - n * h
    IN  2 * (IF d < 0 THEN 0 - d ELSE d) <= n

\* C13: the averages are answered 200 with exactly one pair for each
\* restaurant name that has a stored Rating, no pair for any other name, and
\* each average is the arithmetic mean of the ratings of that name rounded to
\* two decimals (3, 4, 5 give 4.00).
C13_OneRoundedMeanPerName ==
    (last.op = "average_ratings")
    => /\ last.status = 200
       /\ StoreUnchanged
       /\ {a.restaurant_name : a \in last.avgs} =
              {ratings[i].restaurant_name : i \in DOMAIN ratings}
       /\ \A a, b \in last.avgs : a.restaurant_name = b.restaurant_name => a = b
       /\ \A a \in last.avgs :
              /\ a.average_rating # None
              /\ IsMeanInHundredths(The(a.average_rating), RowsNamed(a.restaurant_name))
              /\ {ratings[i].rating : i \in RowsNamed(a.restaurant_name)} = {3, 4, 5}
                 /\ Cardinality(RowsNamed(a.restaurant_name)) = 3
                 => The(a.average_rating) = 400

\* C13 witness: one restaurant with the ratings 3, 4 and 5 was averaged at 4.00.
C13_Witness ==
    /\ last.op = "average_ratings"
    /\ {ratings[i].rating : i \in RowsNamed(NameMa)} = {3, 4, 5}
    /\ Cardinality(RowsNamed(NameMa)) = 3
    /\ [restaurant_name |-> NameMa, average_rating |-> Some(400)] \in last.avgs

----------------------------------------------------------------------------
LookupFailed == call.reply.kind # "ok"

\* C14 as stated: a call of search_events whose lookup fails (transport
\* failure, error status, malformed response) returns the empty list and
\* raises nothing.
C14_AsStated ==
    (call.fn = "search_events" /\ LookupFailed)
    => (~call.raised /\ call.value = <<>>)

\* C14 amended: search_events raises to its caller exactly when the lookup
\* fails, and otherwise returns the first max_events events of the reply; the
\* callers of search_events never raise and yield the empty list on a failed
\* lookup.
C14_FailureRaisedThenAbsorbed ==
    /\ (call.fn = "search_events")
       => /\ call.raised <=> LookupFailed
          /\ ~LookupFailed =>
                 /\ Len(call.value) <= call.max_events
                 /\ Len(call.value) <= Len(call.reply.events)
                 /\ Len(call.value) = call.max_events
                    \/ Len(call.value) = Len(call.reply.events)
                 /\ \A i \in 1..Len(call.value) : call.value[i] = call.reply.events[i]
    /\ (call.fn \in {"fetch_and_assign_events", "api_lookup"})
       => /\ ~call.raised
          /\ LookupFailed => call.value = <<>>
          /\ Len(call.value) <= 3

\* C14 witness: search_events was called, the transport failed, and the call
\* raised.
C14_Witness ==
    /\ call.fn = "search_events"
    /\ call.reply.kind = "transport"
    /\ call.max_events = 3
    /\ call.raised

----------------------------------------------------------------------------
\* C15: in every reachable state the city of each stored Rating is the
\* trimmed second comma-separated segment of the restaurant_address stored
\* with it.
C15_CityMatchesAddress ==
    \A i \in DOMAIN ratings :
        /\ HasComma(ratings[i].restaurant_address)
        /\ ratings[i].city = Trimmed(SecondSegment(ratings[i].restaurant_address))

----------------------------------------------------------------------------
\* C16: the date_posted of a Rating is the time of the request that created
\* it, whatever the body of that request, and an update leaves it as it was.
C16_CreatedAtOwnTime ==
    /\ (IsCreate /\ last.status = 201)
       => ratings[last.id].date_posted = now
    /\ (IsUpdate /\ Existed /\ last.id \in DOMAIN ratings)
       => ratings[last.id].date_posted = last.pre[last.id].date_posted

====
